---- MODULE Spec2Model ----
(***************************************************************************)
(* Model of mcp_playwright_scraper/server.py: the ResourceManager (the     *)
(* resource and subscription dictionaries with their notification hooks)   *)
(* and the scrape_to_markdown tool handler that feeds it.                  *)
(***************************************************************************)
EXTENDS Naturals, Integers, Sequences, FiniteSets, TLC

\* Number of distinct values uuid.uuid4() can deliver in one run of the model.
MaxUuid == 2

\* Number of tool calls the protocol layer runs in one run of the model.
MaxTasks == 2

UUIDS == 1..MaxUuid

TASKS == 1..MaxTasks

\* The session ids the protocol layer hands to subscribe/unsubscribe.
SESSIONS == {"s1", "s2"}

\* Python's None (Optional[Dict] of get_resource, absent arguments).
None == [none |-> TRUE]

\* f"scrape://{resource_id}"
ScrapeUri(resource_id) == [scheme |-> "scrape", id |-> resource_id]

\* A URI of another scheme, as a client may pass to any handler.
ForeignUri == [scheme |-> "file", id |-> 1]

\* Every uri argument a caller can pass.
URI_ARGS == {ScrapeUri(i) : i \in UUIDS} \cup {ForeignUri}

\* A url is the sequence of its parts, scheme prefix first when it has one.
URLS == {<<"example.com">>}

CONTENTS == {"c1", "c2"}

MIME_TYPES == {"text/markdown", "text/html"}

\* Values of datetime.now().isoformat(), read when a resource is stored.
TIMESTAMPS == {"t1"}

\* An Optional[str] that is not None.
Str(s) == [str |-> s]

\* The tool names a client may call.
TOOL_NAMES == {"scrape_to_markdown", "screenshot"}

\* The url arguments of the concurrent tool calls.
TOOL_URLS == {<<"example.com">>, <<"https://", "example.org">>}

\* The `arguments` of the concurrent tool calls: None, an empty dict, a dict
\* without "url", and dicts with "url".
TOOL_ARGUMENTS ==
    {None, [k \in {} |-> None], [verify_ssl |-> FALSE]}
        \cup {[url |-> u] : u \in TOOL_URLS}

\* The url arguments of a single call: without a scheme, with each of the two
\* schemes, with a scheme in another case, with another scheme, with the
\* scheme elsewhere than at the start, and the empty string.
SCRAPE_URLS ==
    { <<"example.com">>, <<"https://", "example.org">>, <<"http://", "example.org">>,
      <<"HTTP://", "example.org">>, <<"ftp://", "example.org">>,
      <<"example.com/?u=", "http://", "example.org">>, <<>> }

\* The `arguments` of a single call.
ARGUMENTS ==
    {None, [k \in {} |-> None], [verify_ssl |-> FALSE]}
        \cup {[url |-> u] : u \in SCRAPE_URLS}
        \cup {[url |-> u, verify_ssl |-> FALSE] : u \in {<<"example.com">>}}

\* What scrape_with_playwright can return: (None, None) on any failure, else
\* the page content, a sequence of text pieces, and the content-type of the
\* response when it has one.
PAGES ==
    { [content |-> None, mime_type |-> None],
      [content |-> Str(<<>>), mime_type |-> Str("text/html")],
      [content |-> Str(<<"<html", "Title", "text">>), mime_type |-> Str("text/html")],
      [content |-> Str(<<"<HTML", "text">>), mime_type |-> None],
      [content |-> Str(<<"text">>), mime_type |-> None],
      [content |-> Str(<<"<p>", "text">>), mime_type |-> Str("text/plain")],
      [content |-> Str(<<"text">>), mime_type |-> Str("text/plain")],
      [content |-> Str(<<"text">>), mime_type |-> Str("text/html")],
      [content |-> Str(<<"<html", "text">>), mime_type |-> Str("")] }

\* The pages of the concurrent calls: a failure and an HTML page.
TOOL_PAGES ==
    { [content |-> None, mime_type |-> None],
      [content |-> Str(<<"<html", "Title", "text">>), mime_type |-> Str("text/html")] }

\* What try_pandoc finds: pandoc, pypandoc without pandoc, or no pypandoc.
PANDOC_PROBES == {"found", "missing", "no_pypandoc"}

\* What the environment of html_to_markdown does: bs4 is not installed,
\* convert_text returns the markdown, convert_text raises OSError, convert_text
\* raises RuntimeError (pandoc ended with an error).
CONVERSIONS == {"no_bs4", "pandoc", "OSError", "RuntimeError"}

\* What the concurrent calls meet of the two.
TOOL_PROBES == {"found", "missing"}

TOOL_CONVERSIONS == {"pandoc", "RuntimeError"}

\* A bool that is not None.
Bool(b) == [bool |-> b]

VARIABLES
    resources,      \* ResourceManager.resources: uri -> {url, content, mime_type, timestamp}
    subscriptions,  \* ResourceManager.subscriptions: uri -> list of session ids
    issued,         \* the values uuid.uuid4() has delivered so far
    notified,       \* the notification hook calls made by the last operation, in order
    lastOp,         \* the last ResourceManager call: its name, arguments and return value
    tasks           \* the handle_call_tool coroutines: where each stands and what it holds

rmVars == <<resources, subscriptions, issued, notified, lastOp>>

vars == <<resources, subscriptions, issued, notified, lastOp, tasks>>

\* An empty dict.
EmptyDict == [k \in {} |-> None]

\* d[k] = v
DictSet(d, k, v) == [x \in DOMAIN d \cup {k} |-> IF x = k THEN v ELSE d[x]]

\* del d[k]
DictDel(d, k) == [x \in DOMAIN d \ {k} |-> d[x]]

\* list.remove(x): removes the first occurrence of x.
RECURSIVE ListRemove(_, _)
ListRemove(l, x) ==
    IF l = <<>> THEN <<>>
    ELSE IF Head(l) = x THEN Tail(l)
    ELSE <<Head(l)>> \o ListRemove(Tail(l), x)

\* x in l
ListHas(l, x) == \E i \in 1..Len(l) : l[i] = x

\* The record an operation leaves in lastOp.
Call(op, uri, session_id, url, content, mime_type, ret) ==
    [op |-> op, uri |-> uri, session_id |-> session_id, url |-> url,
     content |-> content, mime_type |-> mime_type, ret |-> ret]

\* An exception that leaves a handler.
Raised(type, text) == [type |-> type, text |-> text]

\* A string a handler returns.
StrResult(text) == [type |-> "str", text |-> text]

----------------------------------------------------------------------------
(* ResourceManager *)

\* A uuid source that may deliver a value it delivered before.
uuid4_Repeating(given) == UUIDS

\* uuid.uuid4(): a value that no earlier call delivered.
uuid4(given) == UUIDS \ given

\* notify_list_changed(): the hook call add_resource makes. The body is `pass`:
\* it addresses no session. `stored` is the resource map at the time of the call.
notify_list_changed(res) ==
    [hook |-> "notify_list_changed", uri |-> None, stored |-> DOMAIN res, targets |-> {}]

\* notify_resource_updated(uri): the hook call update_resource makes. The body is
\* `pass`: it does not read self.subscriptions and addresses no session.
notify_resource_updated(res, subs, uri) ==
    [hook |-> "notify_resource_updated", uri |-> uri, stored |-> DOMAIN res, targets |-> {}]

\* self.resources = {uri: {...}}: the assignment replaces the whole map.
add_resource_store_Replacing(res, uri, url, content, mime_type, now) ==
    DictSet(EmptyDict, uri,
            [url |-> url, content |-> content, mime_type |-> mime_type, timestamp |-> now])

\* self.resources[uri] = {...} of add_resource.
add_resource_store(res, uri, url, content, mime_type, now) ==
    DictSet(res, uri,
            [url |-> url, content |-> content, mime_type |-> mime_type, timestamp |-> now])

\* add_resource without its call of notify_list_changed.
add_resource_hooks_Silent(res) == <<>>

\* The hooks add_resource calls, in order, once the resource is stored.
add_resource_hooks(res) == <<notify_list_changed(res)>>

add_resource(url, content, mime_type) ==
    \E resource_id \in uuid4(issued), now \in TIMESTAMPS :
        LET uri == ScrapeUri(resource_id)
            stored == add_resource_store(resources, uri, url, content, mime_type, now)
        IN  /\ issued' = issued \cup {resource_id}
            /\ resources' = stored
            /\ notified' = add_resource_hooks(stored)
            /\ lastOp' = Call("add_resource", None, "", url, content, mime_type, uri)
            /\ UNCHANGED subscriptions

\* self.resources.get(uri)
get_resource_ret(res, uri) == IF uri \in DOMAIN res THEN res[uri] ELSE None

get_resource(uri) ==
    /\ lastOp' = Call("get_resource", uri, "", "", "", "", get_resource_ret(resources, uri))
    /\ notified' = <<>>
    /\ UNCHANGED <<resources, subscriptions, issued>>

\* The summaries list_resources builds; the iteration order of the dict is left out.
list_resources_ret(res) ==
    { [uri |-> uri,
       name |-> <<"Scraped: ", res[uri].url>>,
       description |-> <<"Web page scraped on ", res[uri].timestamp>>,
       mimeType |-> res[uri].mime_type] : uri \in DOMAIN res }

list_resources ==
    /\ lastOp' = Call("list_resources", None, "", "", "", "", list_resources_ret(resources))
    /\ notified' = <<>>
    /\ UNCHANGED <<resources, subscriptions, issued>>

\* The return value of subscribe: False when uri is no key of self.resources.
subscribe_ret(res, uri) == uri \in DOMAIN res

\* subscribe without the `session_id not in` test: it appends every time.
subscribe_subs_Appending(res, subs, uri, session_id) ==
    IF uri \notin DOMAIN res THEN subs
    ELSE LET entered == IF uri \notin DOMAIN subs THEN DictSet(subs, uri, <<>>) ELSE subs
         IN  DictSet(entered, uri, Append(entered[uri], session_id))

\* subscribe without the `uri not in self.resources` test.
subscribe_subs_Unchecked(res, subs, uri, session_id) ==
    LET entered == IF uri \notin DOMAIN subs THEN DictSet(subs, uri, <<>>) ELSE subs
    IN  IF ~ListHas(entered[uri], session_id)
        THEN DictSet(entered, uri, Append(entered[uri], session_id))
        ELSE entered

\* self.subscriptions after subscribe(uri, session_id).
subscribe_subs(res, subs, uri, session_id) ==
    IF uri \notin DOMAIN res THEN subs
    ELSE LET entered == IF uri \notin DOMAIN subs THEN DictSet(subs, uri, <<>>) ELSE subs
         IN  IF ~ListHas(entered[uri], session_id)
             THEN DictSet(entered, uri, Append(entered[uri], session_id))
             ELSE entered

subscribe(uri, session_id) ==
    /\ subscriptions' = subscribe_subs(resources, subscriptions, uri, session_id)
    /\ lastOp' = Call("subscribe", uri, session_id, "", "", "", subscribe_ret(resources, uri))
    /\ notified' = <<>>
    /\ UNCHANGED <<resources, issued>>

\* unsubscribe that reports success whatever the subscription map holds.
unsubscribe_ret_Always(subs, uri) == TRUE

\* The return value of unsubscribe: False when uri is no key of self.subscriptions.
unsubscribe_ret(subs, uri) == uri \in DOMAIN subs

\* unsubscribe without the removal of an emptied list.
unsubscribe_subs_Keeping(subs, uri, session_id) ==
    IF uri \notin DOMAIN subs THEN subs
    ELSE IF ListHas(subs[uri], session_id)
         THEN DictSet(subs, uri, ListRemove(subs[uri], session_id))
         ELSE subs

\* self.subscriptions after unsubscribe(uri, session_id).
unsubscribe_subs(subs, uri, session_id) ==
    IF uri \notin DOMAIN subs THEN subs
    ELSE IF ListHas(subs[uri], session_id)
         THEN LET left == ListRemove(subs[uri], session_id)
              IN  IF left = <<>> THEN DictDel(subs, uri) ELSE DictSet(subs, uri, left)
         ELSE subs

unsubscribe(uri, session_id) ==
    /\ subscriptions' = unsubscribe_subs(subscriptions, uri, session_id)
    /\ lastOp' = Call("unsubscribe", uri, session_id, "", "", "", unsubscribe_ret(subscriptions, uri))
    /\ notified' = <<>>
    /\ UNCHANGED <<resources, issued>>

\* The return value of update_resource: False when uri is no key of self.resources.
update_resource_ret(res, uri) == uri \in DOMAIN res

\* update_resource without the `uri not in self.resources` test: it stores anyway.
update_resource_store_Upserting(res, uri, content, mime_type, now) ==
    DictSet(res, uri,
            [url |-> IF uri \in DOMAIN res THEN res[uri].url ELSE <<>>, content |-> content,
             mime_type |-> mime_type, timestamp |-> now])

\* self.resources after update_resource(uri, content, mime_type).
update_resource_store(res, uri, content, mime_type, now) ==
    IF uri \notin DOMAIN res THEN res
    ELSE DictSet(res, uri,
                 [url |-> res[uri].url, content |-> content,
                  mime_type |-> mime_type, timestamp |-> now])

\* The hooks update_resource calls, in order.
update_resource_hooks(res, subs, uri) ==
    IF uri \notin DOMAIN res THEN <<>>
    ELSE <<notify_resource_updated(res, subs, uri)>>

update_resource(uri, content, mime_type) ==
    \E now \in TIMESTAMPS :
        LET stored == update_resource_store(resources, uri, content, mime_type, now)
        IN  /\ resources' = stored
            /\ notified' = update_resource_hooks(stored, subscriptions, uri)
            /\ lastOp' = Call("update_resource", uri, "", "", content, mime_type,
                              update_resource_ret(resources, uri))
            /\ UNCHANGED <<subscriptions, issued>>

\* self.resources.clear()
cleanup_resources(res) == EmptyDict

\* cleanup that forgets self.subscriptions.clear().
cleanup_subscriptions_Forgotten(subs) == subs

\* self.subscriptions.clear()
cleanup_subscriptions(subs) == EmptyDict

cleanup ==
    /\ resources' = cleanup_resources(resources)
    /\ subscriptions' = cleanup_subscriptions(subscriptions)
    /\ notified' = <<>>
    /\ lastOp' = Call("cleanup", None, "", "", "", "", None)
    /\ UNCHANGED issued

\* A read handler that answers an unknown uri with an empty text.
handle_read_resource_ret_Lenient(res, uri) ==
    IF uri \in DOMAIN res THEN StrResult(res[uri].content) ELSE StrResult("")

\* What handle_read_resource returns or raises. str(uri) of a uri the server
\* issued is that uri; uri_str.startswith("scrape://") is the test of its scheme.
handle_read_resource_ret(res, uri) ==
    IF uri.scheme = "scrape"
    THEN IF get_resource_ret(res, uri) # None
         THEN StrResult(get_resource_ret(res, uri).content)
         ELSE Raised("ValueError", <<"Resource not found: ", uri>>)
    ELSE Raised("ValueError", <<"Unsupported URI scheme: ", uri.scheme>>)

handle_read_resource(uri) ==
    /\ lastOp' = Call("read_resource", uri, "", "", "", "",
                      handle_read_resource_ret(resources, uri))
    /\ notified' = <<>>
    /\ UNCHANGED <<resources, subscriptions, issued>>

----------------------------------------------------------------------------
(* Any sequence of calls on the ResourceManager *)

\* A handle_call_tool coroutine that has not been called yet.
IdleTask ==
    [pc |-> "idle", name |-> "", arguments |-> None, url |-> <<>>,
     page |-> [content |-> None, mime_type |-> None], markdown |-> <<>>,
     result |-> None, renders |-> 0, converts |-> 0,
     playwright |-> None, browser |-> None, pending |-> None,
     pandoc_available |-> None, resource_uri |-> None]

\* ResourceManager.__init__, a uuid source that has delivered nothing yet, and
\* no tool call received.
Init ==
    /\ resources = EmptyDict
    /\ subscriptions = EmptyDict
    /\ issued = {}
    /\ notified = <<>>
    /\ lastOp = Call("__init__", None, "", "", "", "", None)
    /\ tasks = [t \in TASKS |-> IdleTask]

Next ==
    \/ \E url \in URLS, content \in CONTENTS, mime_type \in MIME_TYPES :
           add_resource(url, content, mime_type) /\ UNCHANGED tasks
    \/ \E uri \in URI_ARGS : get_resource(uri) /\ UNCHANGED tasks
    \/ list_resources /\ UNCHANGED tasks
    \/ \E uri \in URI_ARGS, session_id \in SESSIONS :
           subscribe(uri, session_id) /\ UNCHANGED tasks
    \/ \E uri \in URI_ARGS, session_id \in SESSIONS :
           unsubscribe(uri, session_id) /\ UNCHANGED tasks
    \/ \E uri \in URI_ARGS, content \in CONTENTS, mime_type \in MIME_TYPES :
           update_resource(uri, content, mime_type) /\ UNCHANGED tasks
    \/ cleanup /\ UNCHANGED tasks
    \/ \E uri \in URI_ARGS : handle_read_resource(uri) /\ UNCHANGED tasks

Spec == Init /\ [][Next]_vars

----------------------------------------------------------------------------
(* Scraper and the tool handler *)

\* A normalisation that puts "https://" in front of every url.
normalize_url_Always(url) == <<"https://">> \o url

\* The url normalisation of Scraper.scrape: "https://" is put in front of a url
\* that starts with neither "http://" nor "https://".
normalize_url(url) ==
    IF url # <<>> /\ Head(url) \in {"http://", "https://"}
    THEN url
    ELSE <<"https://">> \o url

\* A piece of text in lower case (re.IGNORECASE).
Lower(piece) == IF piece = "<HTML" THEN "<html" ELSE piece

\* The html_patterns of looks_like_html, in lower case.
html_patterns == {"<!doctype html", "<html", "<head", "<body", "<div", "<p>", "<a href="}

\* Scraper.looks_like_html
looks_like_html(content) ==
    \E i \in 1..Len(content) : Lower(content[i]) \in html_patterns

\* A test for None alone: the empty string counts as content.
no_content_NoneOnly(content) == content = None

\* `not content` of Scraper.scrape: None or the empty string.
no_content(content) == content = None \/ content.str = <<>>

\* A test that looks at the body whenever the hint does not say HTML.
is_html_BodyAlways(content, mime_type) ==
    \/ mime_type # None /\ mime_type.str = "text/html"
    \/ looks_like_html(content.str)

\* The test of Scraper.scrape that sends the content to the converter:
\* `mime_type and mime_type.startswith("text/html")`, which of the hints of
\* PAGES holds for "text/html" alone, or no hint and a body that looks like HTML.
is_html(content, mime_type) ==
    \/ mime_type # None /\ mime_type.str = "text/html"
    \/ mime_type = None /\ looks_like_html(content.str)

\* f"# Failed to retrieve content from {url}"
failure_artifact(url) == <<"# Failed to retrieve content from ", url>>

\* The fenced text of Scraper.scrape: a line of three backquotes, the content
\* on the next line, and a line of three backquotes after it.
fenced_artifact(content) == <<"[3 backquotes]", "\n", content.str, "\n", "[3 backquotes]">>

\* What html_to_markdown returns for the page: pandoc's markdown, the title
\* and text fallback, or the raw page under a fixed title when bs4 is missing.
html_to_markdown(content, how) ==
    IF how = "no_bs4" THEN <<"# Scraped Content\n\n", content.str>>
    ELSE <<how, content.str>>

\* The way html_to_markdown ends, from self.pandoc_available and from what the
\* imports and pypandoc.convert_text do: `except OSError` is the only handler
\* around convert_text and `except ImportError` the only one around the body,
\* so another exception of convert_text leaves html_to_markdown.
html_to_markdown_end(pandoc_available, how) ==
    IF how = "no_bs4" THEN "no_bs4"
    ELSE IF ~pandoc_available.bool THEN "fallback"
    ELSE IF how = "pandoc" THEN "pandoc"
    ELSE IF how = "OSError" THEN "fallback"
    ELSE "raise"

\* Only the `not arguments` half of the test: any non-empty dict passes.
arguments_missing_url_Lax(arguments) ==
    \/ arguments = None
    \/ DOMAIN arguments = {}

\* `not arguments or "url" not in arguments` of handle_call_tool.
arguments_missing_url(arguments) ==
    \/ arguments = None
    \/ DOMAIN arguments = {}
    \/ "url" \notin DOMAIN arguments

\* [types.TextContent(type="text", text=...)]
TextContent(text) == [type |-> "text", text |-> text]

\* (None, None) of scrape_with_playwright.
NoPage == [content |-> None, mime_type |-> None]

\* The ids of the Playwright objects the calls hold.
EnginesOf(ts) == {ts[t].playwright.id : t \in {x \in TASKS : ts[x].playwright # None}}

\* One Playwright object that every call uses.
async_playwright_Shared(ts) == 1

\* async_playwright().start() makes a new Playwright object with a driver
\* process of its own: its id is one that no call holds.
async_playwright(ts) ==
    CHOOSE n \in 1..(MaxTasks + 1) :
        /\ n \notin EnginesOf(ts)
        /\ \A m \in 1..(n - 1) : m \in EnginesOf(ts)

\* A running driver or browser process.
Engine(id) == [id |-> id, state |-> "running"]

\* A driver or browser process that has ended.
Released(engine) == [engine EXCEPT !.state = "released"]

\* handle_call_tool from its call to its first suspension: the name test, the
\* argument test, and for a call with a url the start of Scraper.scrape, which
\* normalises the url and calls scrape_with_playwright, which awaits
\* async_playwright().start(). arguments.get("url") is None for a dict
\* without the key, and url.startswith then raises.
handle_call_tool(t, name, arguments) ==
    /\ tasks[t].pc = "idle"
    /\ tasks' = [tasks EXCEPT ![t] =
          IF name # "scrape_to_markdown"
          THEN [@ EXCEPT !.pc = "done", !.name = name, !.arguments = arguments,
                         !.result = Raised("ValueError", <<"Unknown tool: ", name>>)]
          ELSE IF arguments_missing_url(arguments)
          THEN [@ EXCEPT !.pc = "done", !.name = name, !.arguments = arguments,
                         !.result = TextContent("URL is required")]
          ELSE IF "url" \notin DOMAIN arguments
          THEN [@ EXCEPT !.pc = "done", !.name = name, !.arguments = arguments,
                         !.result = Raised("AttributeError", "startswith")]
          ELSE [@ EXCEPT !.pc = "start", !.name = name, !.arguments = arguments,
                         !.url = normalize_url(arguments.url),
                         !.renders = @ + 1]]
    /\ UNCHANGED rmVars

\* The rest of handle_call_tool once Scraper.scrape has its markdown: the
\* resource is added under the url of the arguments and the markdown is the
\* result. `task` is the call as it stands when scrape returns.
store_and_return(t, task, markdown) ==
    /\ add_resource(task.arguments.url, markdown, "text/markdown")
    /\ tasks' = [tasks EXCEPT ![t] =
          [task EXCEPT !.pc = "done", !.markdown = markdown,
                       !.result = TextContent(markdown),
                       !.resource_uri = lastOp'.ret]]

\* An exception leaves handle_call_tool: nothing is added.
raise(t, task, exception) ==
    /\ tasks' = [tasks EXCEPT ![t] = [task EXCEPT !.pc = "done", !.result = exception]]
    /\ UNCHANGED rmVars

\* Scraper.scrape that calls the renderer again when it returned no content.
scrape_continue_Retrying(t, task, page, probe) ==
    IF no_content(page.content)
    THEN /\ tasks' = [tasks EXCEPT ![t] =
               [task EXCEPT !.pc = "start", !.page = page, !.renders = @ + 1,
                            !.playwright = None, !.browser = None]]
         /\ UNCHANGED rmVars
    ELSE IF is_html(page.content, page.mime_type)
    THEN /\ tasks' = [tasks EXCEPT ![t] =
               IF probe = "missing"
               THEN [task EXCEPT !.pc = "download", !.page = page]
               ELSE [task EXCEPT !.pc = "convert", !.page = page,
                                 !.pandoc_available = Bool(probe = "found"),
                                 !.converts = @ + 1]]
         /\ UNCHANGED rmVars
    ELSE store_and_return(t, [task EXCEPT !.page = page], fenced_artifact(page.content))

\* Scraper.scrape from the return of scrape_with_playwright to its next
\* suspension or to the end of the call: the failure text for no content, the
\* fenced text for content that is not HTML, and for HTML try_pandoc, which
\* finds pandoc ("found"), finds no pypandoc ("no_pypandoc") or awaits the
\* download of pandoc ("missing"), and then html_to_markdown up to its await.
scrape_continue(t, task, page, probe) ==
    IF no_content(page.content)
    THEN store_and_return(t, [task EXCEPT !.page = page], failure_artifact(task.url))
    ELSE IF is_html(page.content, page.mime_type)
    THEN /\ tasks' = [tasks EXCEPT ![t] =
               IF probe = "missing"
               THEN [task EXCEPT !.pc = "download", !.page = page]
               ELSE [task EXCEPT !.pc = "convert", !.page = page,
                                 !.pandoc_available = Bool(probe = "found"),
                                 !.converts = @ + 1]]
         /\ UNCHANGED rmVars
    ELSE store_and_return(t, [task EXCEPT !.page = page], fenced_artifact(page.content))

\* `playwright = await async_playwright().start()` ends: with the driver, or
\* with an exception, which `except Exception` turns into (None, None); the
\* finally block has nothing to release then.
playwright_start(t, started) ==
    /\ tasks[t].pc = "start"
    /\ IF started
       THEN /\ tasks' = [tasks EXCEPT ![t] =
                  [@ EXCEPT !.pc = "launch",
                            !.playwright = Engine(async_playwright(tasks))]]
            /\ UNCHANGED rmVars
       ELSE scrape_continue(t, tasks[t], NoPage, "found")

\* `browser = await playwright.chromium.launch(headless=True)` ends: with the
\* browser, or with an exception; the finally block then awaits
\* playwright.stop().
chromium_launch(t, launched) ==
    /\ tasks[t].pc = "launch"
    /\ tasks' = [tasks EXCEPT ![t] =
          IF launched
          THEN [@ EXCEPT !.pc = "page", !.browser = Engine(tasks[t].playwright.id)]
          ELSE [@ EXCEPT !.pc = "stop", !.page = NoPage]]
    /\ UNCHANGED rmVars

\* The awaits on the context and the page (new_context, new_page, evaluate,
\* set_extra_http_headers, goto, content, header_value) end: `page` is the
\* value of the return statement they lead to, (None, None) for an exception
\* of any of them. The finally block then awaits browser.close().
render_page(t, page) ==
    /\ tasks[t].pc = "page"
    /\ tasks' = [tasks EXCEPT ![t] = [@ EXCEPT !.pc = "close", !.page = page]]
    /\ UNCHANGED rmVars

\* `await browser.close()` ends, and the finally block awaits playwright.stop().
browser_close(t) ==
    /\ tasks[t].pc = "close"
    /\ tasks' = [tasks EXCEPT ![t] =
          [@ EXCEPT !.pc = "stop", !.browser = Released(@)]]
    /\ UNCHANGED rmVars

\* `await playwright.stop()` ends: the driver is gone, scrape_with_playwright
\* returns its value, or lets the exception that led into the finally block
\* go on, and Scraper.scrape goes on from the return.
playwright_stop(t, probe) ==
    /\ tasks[t].pc = "stop"
    /\ LET task == [tasks[t] EXCEPT !.playwright = Released(@)]
       IN  IF task.pending # None
           THEN raise(t, task, task.pending)
           ELSE scrape_continue(t, task, task.page, probe)

\* `await asyncio.to_thread(pypandoc.download_pandoc, ...)` of try_pandoc ends,
\* with pandoc installed or with an exception, and html_to_markdown runs up to
\* its await.
try_pandoc(t, installed) ==
    /\ tasks[t].pc = "download"
    /\ tasks' = [tasks EXCEPT ![t] =
          [@ EXCEPT !.pc = "convert", !.pandoc_available = Bool(installed),
                    !.converts = @ + 1]]
    /\ UNCHANGED rmVars

\* The awaits of html_to_markdown (slimdown_html, convert_text) end and
\* handle_call_tool ends the call. `how` is what the environment does: bs4 is
\* not installed, convert_text returns, or convert_text raises OSError or
\* RuntimeError.
convert(t, how) ==
    /\ tasks[t].pc = "convert"
    /\ LET end == html_to_markdown_end(tasks[t].pandoc_available, how)
       IN  IF end = "raise"
           THEN raise(t, tasks[t], Raised("RuntimeError", "convert_text"))
           ELSE store_and_return(t, tasks[t],
                                 html_to_markdown(tasks[t].page.content, end))

\* The tool calls of a session, interleaved at their suspension points.
NextTool ==
    \/ \E t \in TASKS, name \in TOOL_NAMES, arguments \in TOOL_ARGUMENTS :
           handle_call_tool(t, name, arguments)
    \/ \E t \in TASKS, started \in BOOLEAN : playwright_start(t, started)
    \/ \E t \in TASKS, launched \in BOOLEAN : chromium_launch(t, launched)
    \/ \E t \in TASKS, page \in TOOL_PAGES : render_page(t, page)
    \/ \E t \in TASKS : browser_close(t)
    \/ \E t \in TASKS, probe \in TOOL_PROBES : playwright_stop(t, probe)
    \/ \E t \in TASKS, installed \in BOOLEAN : try_pandoc(t, installed)
    \/ \E t \in TASKS, how \in TOOL_CONVERSIONS : convert(t, how)

SpecTool == Init /\ [][NextTool]_vars

\* One tool call, with every page and every behaviour of the environment.
NextScrape ==
    \/ \E name \in TOOL_NAMES, arguments \in ARGUMENTS :
           handle_call_tool(1, name, arguments)
    \/ \E started \in BOOLEAN : playwright_start(1, started)
    \/ \E launched \in BOOLEAN : chromium_launch(1, launched)
    \/ \E page \in PAGES : render_page(1, page)
    \/ browser_close(1)
    \/ \E probe \in PANDOC_PROBES : playwright_stop(1, probe)
    \/ \E installed \in BOOLEAN : try_pandoc(1, installed)
    \/ \E how \in CONVERSIONS : convert(1, how)

SpecScrape == Init /\ [][NextScrape]_vars

\* asyncio.CancelledError: a BaseException, which `except Exception` lets pass.
CancelledError == Raised("CancelledError", "")

\* The task of the call is cancelled: CancelledError is thrown into the await
\* it is suspended at. In the try block of scrape_with_playwright no handler
\* catches it and the finally block runs with it pending. Inside the finally
\* block the handlers are `except Exception: pass`, so it leaves the block from
\* the await it hit, and the statements after that await are not run.
\* `interrupted` tells whether the process the interrupted await was ending is
\* still running.
cancel(t, interrupted) ==
    /\ tasks[t].pc \in {"start", "launch", "page", "close", "stop", "download", "convert"}
    /\ CASE tasks[t].pc = "launch" ->
                /\ tasks' = [tasks EXCEPT ![t] =
                      [@ EXCEPT !.pc = "stop", !.pending = CancelledError]]
                /\ UNCHANGED rmVars
         [] tasks[t].pc = "page" ->
                /\ tasks' = [tasks EXCEPT ![t] =
                      [@ EXCEPT !.pc = "close", !.pending = CancelledError]]
                /\ UNCHANGED rmVars
         [] tasks[t].pc = "close" ->
                raise(t, [tasks[t] EXCEPT !.browser =
                             IF interrupted THEN @ ELSE Released(@)],
                      CancelledError)
         [] tasks[t].pc = "stop" ->
                raise(t, [tasks[t] EXCEPT !.playwright =
                             IF interrupted THEN @ ELSE Released(@)],
                      CancelledError)
         [] OTHER -> raise(t, tasks[t], CancelledError)

\* The tool calls of a session and the cancellation of any of them.
NextCancel ==
    \/ \E t \in TASKS, name \in TOOL_NAMES, arguments \in TOOL_ARGUMENTS :
           handle_call_tool(t, name, arguments)
    \/ \E t \in TASKS, started \in BOOLEAN : playwright_start(t, started)
    \/ \E t \in TASKS, launched \in BOOLEAN : chromium_launch(t, launched)
    \/ \E t \in TASKS, page \in TOOL_PAGES : render_page(t, page)
    \/ \E t \in TASKS : browser_close(t)
    \/ \E t \in TASKS, probe \in TOOL_PROBES : playwright_stop(t, probe)
    \/ \E t \in TASKS, installed \in BOOLEAN : try_pandoc(t, installed)
    \/ \E t \in TASKS, how \in TOOL_CONVERSIONS : convert(t, how)
    \/ \E t \in TASKS, interrupted \in BOOLEAN : cancel(t, interrupted)

SpecCancel == Init /\ [][NextCancel]_vars

----------------------------------------------------------------------------
(* Properties of the ResourceManager *)

\* The identities add_resource has returned so far.
Returned == {ScrapeUri(i) : i \in issued}

\* Number of times x occurs in the list l.
Occurrences(l, x) == Cardinality({i \in 1..Len(l) : l[i] = x})

\* get_resource(uri) finds a resource and its content is c.
Reads(res, uri, c) ==
    /\ get_resource_ret(res, uri) # None
    /\ get_resource_ret(res, uri).content = c

\* Every resource of the map before the step, other than `except`, is read with
\* the same content after the step.
KeepsContent(except) ==
    \A u \in DOMAIN resources \ except : Reads(resources', u, resources[u].content)

\* C1: each add_resource returns an identity that no earlier add_resource
\* returned (also for a url added before), and get_resource on a returned
\* identity yields the content last written for it by add_resource or by a
\* successful update_resource, as long as no cleanup happened since.
C1_DistinctIdentityLastWritten ==
    [][ /\ lastOp'.op = "add_resource" =>
              /\ lastOp'.ret \notin Returned
              /\ Reads(resources', lastOp'.ret, lastOp'.content)
              /\ KeepsContent({})
        /\ (lastOp'.op = "update_resource" /\ lastOp'.ret) =>
              /\ Reads(resources', lastOp'.uri, lastOp'.content)
              /\ KeepsContent({lastOp'.uri})
        /\ lastOp'.op \in {"get_resource", "list_resources", "subscribe", "unsubscribe"} =>
              KeepsContent({})
        /\ (lastOp'.op = "update_resource" /\ ~lastOp'.ret) => KeepsContent({})
        /\ (lastOp'.op = "get_resource" /\ lastOp'.uri \in DOMAIN resources) =>
              /\ lastOp'.ret # None
              /\ lastOp'.ret.content = resources[lastOp'.uri].content
      ]_vars

\* C1 witness: two resources of the same url live under two identities with
\* different contents, and get_resource has just returned the content of one.
C1_Witness ==
    /\ lastOp.op = "get_resource"
    /\ lastOp.ret # None
    /\ \E u \in DOMAIN resources \ {lastOp.uri} :
          /\ lastOp.uri \in DOMAIN resources
          /\ resources[u].url = resources[lastOp.uri].url
          /\ resources[u].content # resources[lastOp.uri].content
          /\ lastOp.ret.content = resources[lastOp.uri].content

\* C2: subscribe(uri, session) returns failure and changes nothing when uri is
\* no key of the resource map; otherwise it returns success, the session is in
\* uri's subscriber list exactly once afterwards, and subscribing a session that
\* is already there leaves the subscription map as it was.
C2_SubscribeIdempotent ==
    [][ lastOp'.op = "subscribe" =>
          IF lastOp'.uri \notin DOMAIN resources
          THEN /\ lastOp'.ret = FALSE
               /\ UNCHANGED <<resources, subscriptions, issued>>
               /\ notified' = <<>>
          ELSE /\ lastOp'.ret = TRUE
               /\ lastOp'.uri \in DOMAIN subscriptions'
               /\ Occurrences(subscriptions'[lastOp'.uri], lastOp'.session_id) = 1
               /\ (/\ lastOp'.uri \in DOMAIN subscriptions
                   /\ ListHas(subscriptions[lastOp'.uri], lastOp'.session_id))
                  => subscriptions' = subscriptions
               /\ \A u \in DOMAIN subscriptions \ {lastOp'.uri} :
                      u \in DOMAIN subscriptions' /\ subscriptions'[u] = subscriptions[u]
               /\ UNCHANGED resources
      ]_vars

\* C2 witness: s1 subscribed again after s2 had subscribed: the list still
\* holds s1 first and once.
C2_Witness ==
    /\ lastOp.op = "subscribe"
    /\ lastOp.ret = TRUE
    /\ lastOp.session_id = "s1"
    /\ lastOp.uri \in DOMAIN subscriptions
    /\ subscriptions[lastOp.uri] = <<"s1", "s2">>

\* C3: no subscription entry has an empty subscriber list.
C3_NoEmptyEntry ==
    \A u \in DOMAIN subscriptions : subscriptions[u] # <<>>

\* C3 witness: unsubscribe has just removed the last subscriber of a resource
\* that is still stored, and the entry is gone.
C3_Witness ==
    /\ lastOp.op = "unsubscribe"
    /\ lastOp.ret = TRUE
    /\ lastOp.uri \in DOMAIN resources
    /\ lastOp.uri \notin DOMAIN subscriptions

\* C4: unsubscribe(uri, session) returns failure when uri has no subscription
\* entry; returns success and changes nothing when the entry does not contain
\* session; otherwise removes session, and deletes the entry when session was
\* the last subscriber, so that a further unsubscribe on uri fails.
C4_Unsubscribe ==
    [][ lastOp'.op = "unsubscribe" =>
          IF lastOp'.uri \notin DOMAIN subscriptions
          THEN /\ lastOp'.ret = FALSE
               /\ UNCHANGED <<resources, subscriptions, issued>>
          ELSE IF ~ListHas(subscriptions[lastOp'.uri], lastOp'.session_id)
          THEN /\ lastOp'.ret = TRUE
               /\ UNCHANGED <<resources, subscriptions, issued>>
          ELSE /\ lastOp'.ret = TRUE
               /\ UNCHANGED <<resources, issued>>
               /\ IF subscriptions[lastOp'.uri] = <<lastOp'.session_id>>
                  THEN /\ lastOp'.uri \notin DOMAIN subscriptions'
                       /\ ~unsubscribe_ret(subscriptions', lastOp'.uri)
                  ELSE /\ lastOp'.uri \in DOMAIN subscriptions'
                       /\ ~ListHas(subscriptions'[lastOp'.uri], lastOp'.session_id)
                       /\ \A s \in SESSIONS \ {lastOp'.session_id} :
                              ListHas(subscriptions'[lastOp'.uri], s)
                                  = ListHas(subscriptions[lastOp'.uri], s)
               /\ \A u \in DOMAIN subscriptions \ {lastOp'.uri} :
                      u \in DOMAIN subscriptions' /\ subscriptions'[u] = subscriptions[u]
      ]_vars

\* C4 witness: unsubscribe of s1 succeeded on an entry that holds s2 alone.
C4_Witness ==
    /\ lastOp.op = "unsubscribe"
    /\ lastOp.ret = TRUE
    /\ lastOp.session_id = "s1"
    /\ lastOp.uri \in DOMAIN subscriptions
    /\ subscriptions[lastOp.uri] = <<"s2">>

\* C5: update_resource on an identity that is no key of the resource map
\* returns failure, leaves the resource map unchanged and calls no hook.
C5_UpdateUnknownFails ==
    [][ (lastOp'.op = "update_resource" /\ lastOp'.uri \notin DOMAIN resources) =>
          /\ lastOp'.ret = FALSE
          /\ resources' = resources
          /\ notified' = <<>>
      ]_vars

\* C5 witness: update_resource failed on an identity that add_resource had
\* returned and cleanup removed, while another resource is stored.
C5_Witness ==
    /\ lastOp.op = "update_resource"
    /\ lastOp.ret = FALSE
    /\ lastOp.uri \in Returned
    /\ resources # EmptyDict

\* C6: cleanup empties the resource map and the subscription map from any
\* state and a second cleanup changes nothing; after it list_resources returns
\* nothing, get_resource on every identity that was valid returns not-found, and
\* subscribe, unsubscribe and update_resource on such an identity fail. The
\* operation that follows a cleanup answers accordingly.
C6_CleanupEmptiesAll ==
    [][ /\ lastOp'.op = "cleanup" =>
              /\ resources' = EmptyDict
              /\ subscriptions' = EmptyDict
              /\ cleanup_resources(resources') = resources'
              /\ cleanup_subscriptions(subscriptions') = subscriptions'
              /\ list_resources_ret(resources') = {}
              /\ \A u \in DOMAIN resources \cup DOMAIN subscriptions :
                    /\ get_resource_ret(resources', u) = None
                    /\ ~subscribe_ret(resources', u)
                    /\ ~unsubscribe_ret(subscriptions', u)
                    /\ ~update_resource_ret(resources', u)
        /\ lastOp.op = "cleanup" =>
              /\ lastOp'.op = "list_resources" => lastOp'.ret = {}
              /\ lastOp'.op = "get_resource" => lastOp'.ret = None
              /\ lastOp'.op \in {"subscribe", "unsubscribe", "update_resource"} =>
                    /\ lastOp'.ret = FALSE
                    /\ resources' = EmptyDict
                    /\ subscriptions' = EmptyDict
      ]_vars

\* C6 witness: unsubscribe has failed on an identity that add_resource had
\* returned, right after a cleanup took it and its subscribers away.
C6_Witness ==
    /\ lastOp.op = "unsubscribe"
    /\ lastOp.ret = FALSE
    /\ lastOp.uri \in Returned
    /\ resources = EmptyDict
    /\ subscriptions = EmptyDict

\* C7: add_resource grows the resource map by exactly one entry, and no
\* operation other than cleanup removes an entry: every identity of the map
\* stays resolvable across every other operation.
C7_GrowsByOneNeverShrinks ==
    [][ /\ lastOp'.op = "add_resource" =>
              /\ Cardinality(DOMAIN resources') = Cardinality(DOMAIN resources) + 1
              /\ DOMAIN resources' = DOMAIN resources \cup {lastOp'.ret}
        /\ lastOp'.op # "cleanup" =>
              \A u \in DOMAIN resources : get_resource_ret(resources', u) # None
        /\ lastOp'.op \notin {"cleanup", "add_resource"} =>
              DOMAIN resources' = DOMAIN resources
      ]_vars

\* C7 witness: a second add_resource has just stored its resource beside the
\* first one.
C7_Witness ==
    /\ lastOp.op = "add_resource"
    /\ Cardinality(DOMAIN resources) = 2
    /\ lastOp.ret \in DOMAIN resources

\* The sessions subscribed to uri.
Subscribers(subs, uri) ==
    IF uri \in DOMAIN subs THEN {subs[uri][i] : i \in 1..Len(subs[uri])} ELSE {}

\* C8: a successful update_resource replaces content and content-kind in place
\* and emits exactly one "resource updated" event, whose target set is the set
\* of subscribers registered for that identity at the moment of the update, and
\* no "resource list changed" event.
C8_UpdateNotifiesSubscribers ==
    (lastOp.op = "update_resource" /\ lastOp.ret) =>
        /\ resources[lastOp.uri].content = lastOp.content
        /\ resources[lastOp.uri].mime_type = lastOp.mime_type
        /\ Len(notified) = 1
        /\ notified[1].hook = "notify_resource_updated"
        /\ notified[1].uri = lastOp.uri
        /\ notified[1].targets = Subscribers(subscriptions, lastOp.uri)

\* C9: add_resource emits exactly one global "resource list changed" event,
\* once the new resource is stored, and no per-resource event; get_resource,
\* list_resources, subscribe and unsubscribe emit no event.
C9_AddNotifiesListChanged ==
    /\ lastOp.op = "add_resource" =>
          /\ Len(notified) = 1
          /\ notified[1].hook = "notify_list_changed"
          /\ notified[1].uri = None
          /\ lastOp.ret \in notified[1].stored
    /\ lastOp.op \in {"get_resource", "list_resources", "subscribe", "unsubscribe"} =>
          notified = <<>>

\* C9 witness: add_resource has stored a resource while another resource has a
\* subscriber.
C9_Witness ==
    /\ lastOp.op = "add_resource"
    /\ notified # <<>>
    /\ subscriptions # EmptyDict

----------------------------------------------------------------------------
(* Properties of the tool handler *)

\* The arguments are None or a dict without the key "url".
LacksUrl(arguments) == arguments = None \/ "url" \notin DOMAIN arguments

\* C10: a call of scrape_to_markdown with no arguments or with arguments that
\* lack the url key ends at once with the result "URL is required"; it calls
\* neither the renderer nor the converter, then or later, and the step leaves
\* the resource map, and so the resource count, as it was.
C10_MissingUrlIsUsageError ==
    [][ \A t \in TASKS :
          /\ (/\ tasks[t].pc = "idle"
              /\ tasks'[t].pc # "idle"
              /\ tasks'[t].name = "scrape_to_markdown"
              /\ LacksUrl(tasks'[t].arguments))
             => /\ resources' = resources
                /\ Cardinality(DOMAIN resources') = Cardinality(DOMAIN resources)
                /\ UNCHANGED <<subscriptions, issued>>
          /\ (tasks'[t].name = "scrape_to_markdown" /\ LacksUrl(tasks'[t].arguments))
             => /\ tasks'[t].pc = "done"
                /\ tasks'[t].result = TextContent("URL is required")
                /\ tasks'[t].renders = 0
                /\ tasks'[t].converts = 0
      ]_vars

\* C10 witness: a call with a dict that holds verify_ssl alone has ended with
\* the usage error while another call has stored its resource.
C10_Witness ==
    \E t \in TASKS :
        /\ tasks[t].pc = "done"
        /\ tasks[t].name = "scrape_to_markdown"
        /\ tasks[t].arguments = [verify_ssl |-> FALSE]
        /\ tasks[t].result = TextContent("URL is required")
        /\ Cardinality(DOMAIN resources) = 1

----------------------------------------------------------------------------
(* Properties of the read handler and of the two maps together *)

\* C13: read_resource returns the stored content text for an identity that is
\* in the registry, and fails with an error when the identity is unknown or
\* its scheme is not scrape://; it never changes the registry.
C13_ReadResource ==
    [][ lastOp'.op = "read_resource" =>
          /\ UNCHANGED <<resources, subscriptions, issued>>
          /\ IF lastOp'.uri \in DOMAIN resources
             THEN /\ lastOp'.ret.type = "str"
                  /\ lastOp'.ret.text = resources[lastOp'.uri].content
             ELSE lastOp'.ret.type = "ValueError"
          /\ lastOp'.uri.scheme # "scrape" => lastOp'.ret.type = "ValueError"
      ]_vars

\* C13 witness: a read of an identity that cleanup removed has failed while
\* another resource is stored.
C13_Witness ==
    /\ lastOp.op = "read_resource"
    /\ lastOp.ret.type = "ValueError"
    /\ lastOp.uri \in Returned
    /\ resources # EmptyDict

\* C20: every identity that has a subscription entry is a key of the resource
\* map.
C20_SubscribedIsStored ==
    DOMAIN subscriptions \subseteq DOMAIN resources

\* C20 witness: a subscribe on an identity that cleanup removed was refused
\* while another resource has a subscriber.
C20_Witness ==
    /\ lastOp.op = "subscribe"
    /\ lastOp.ret = FALSE
    /\ lastOp.uri \in Returned
    /\ subscriptions # EmptyDict

----------------------------------------------------------------------------
(* A caller that writes into the values the ResourceManager returned *)

\* Whether the value get_resource returned is the dict stored in
\* self.resources: `self.resources.get(uri)` returns the stored object, no copy.
get_resource_shares == TRUE

\* Whether a summary list_resources returned is an object stored in
\* self.resources: each summary is a dict built inside list_resources.
list_resources_shares == FALSE

\* The keys of a stored resource a caller may assign to.
RESOURCE_KEYS == {"content", "mime_type", "timestamp"}

\* The strings a caller may assign to a key.
READER_VALUES(key) ==
    IF key = "content" THEN CONTENTS
    ELSE IF key = "mime_type" THEN MIME_TYPES
    ELSE TIMESTAMPS

\* resource = get_resource(uri); resource[key] = value
reader_setitem(key, value) ==
    /\ lastOp.op = "get_resource"
    /\ lastOp.ret # None
    /\ resources' = IF get_resource_shares
                    THEN [resources EXCEPT ![lastOp.uri][key] = value]
                    ELSE resources
    /\ lastOp' = Call("reader_setitem", lastOp.uri, "", "", "", "", None)
    /\ notified' = <<>>
    /\ UNCHANGED <<subscriptions, issued>>

\* summaries = list_resources(); summaries[i]["mimeType"] = value
reader_setitem_listed(uri, value) ==
    /\ lastOp.op = "list_resources"
    /\ \E summary \in lastOp.ret : summary.uri = uri
    /\ resources' = IF list_resources_shares
                    THEN [resources EXCEPT ![uri]["mime_type"] = value]
                    ELSE resources
    /\ lastOp' = Call("reader_setitem_listed", uri, "", "", "", "", None)
    /\ notified' = <<>>
    /\ UNCHANGED <<subscriptions, issued>>

NextReader ==
    \/ \E url \in URLS, content \in CONTENTS, mime_type \in MIME_TYPES :
           add_resource(url, content, mime_type) /\ UNCHANGED tasks
    \/ \E uri \in URI_ARGS : get_resource(uri) /\ UNCHANGED tasks
    \/ list_resources /\ UNCHANGED tasks
    \/ \E uri \in URI_ARGS, content \in CONTENTS, mime_type \in MIME_TYPES :
           update_resource(uri, content, mime_type) /\ UNCHANGED tasks
    \/ cleanup /\ UNCHANGED tasks
    \/ \E key \in RESOURCE_KEYS : \E value \in READER_VALUES(key) :
           reader_setitem(key, value) /\ UNCHANGED tasks
    \/ \E uri \in URI_ARGS, value \in MIME_TYPES :
           reader_setitem_listed(uri, value) /\ UNCHANGED tasks

SpecReader == Init /\ [][NextReader]_vars

\* C16: the resource map changes only through the mutation operations of the
\* registry: nothing a reader does with a value that get_resource or
\* list_resources returned changes the content, the type or the timestamp a
\* later get_resource returns.
C16_ReadersCannotChange ==
    [][ lastOp'.op \in {"get_resource", "list_resources",
                        "reader_setitem", "reader_setitem_listed"}
          => \A uri \in URI_ARGS :
                 get_resource_ret(resources', uri) = get_resource_ret(resources, uri)
      ]_vars

----------------------------------------------------------------------------
(* Properties of one tool call *)

\* s.startswith(prefix) for a url given by its parts.
StartsWith(url, prefix) == url # <<>> /\ Head(url) = prefix

\* The call is a scrape_to_markdown call whose arguments hold a url.
PassedValidation(task) ==
    task.name = "scrape_to_markdown" /\ ~LacksUrl(task.arguments)

\* The url with "https://" in front unless it starts with one of the two schemes.
WithScheme(url) ==
    IF StartsWith(url, "http://") \/ StartsWith(url, "https://")
    THEN url
    ELSE <<"https://">> \o url

\* The renderer gave no content: None or the empty string.
RendererFailed(page) ==
    page.content = None \/ page.content.str = <<>>

\* The call ends in this step, not by an exception of the renderer's teardown.
Ends(t) ==
    /\ tasks[t].pc # "done"
    /\ tasks'[t].pc = "done"
    /\ PassedValidation(tasks'[t])
    /\ tasks'[t].pending = None

\* The step adds exactly one resource, with this content and text/markdown.
AddsOne(content) ==
    /\ Cardinality(DOMAIN resources') = Cardinality(DOMAIN resources) + 1
    /\ DOMAIN resources \subseteq DOMAIN resources'
    /\ \A uri \in DOMAIN resources' \ DOMAIN resources :
           /\ resources'[uri].content = content
           /\ resources'[uri].mime_type = "text/markdown"

\* The statement of C11 with {url} read as the url of the tool call: a call
\* that ends after a renderer failure returns "# Failed to retrieve content
\* from " followed by the url of its arguments, and adds one resource with it.
C11_FailureArtifactOfCallUrl ==
    [][ \A t \in TASKS :
          (Ends(t) /\ RendererFailed(tasks'[t].page)) =>
              LET artifact == <<"# Failed to retrieve content from ",
                                tasks'[t].arguments.url>>
              IN  /\ tasks'[t].result = TextContent(artifact)
                  /\ AddsOne(artifact)
      ]_vars

\* C11: when the renderer signals failure (no driver, no browser, an error on
\* the page, empty content) for a tool call with a url, the call does not
\* raise: its result is "# Failed to retrieve content from " followed by the
\* normalized url, that is the url of the call with https:// in front unless it
\* starts with http:// or https://, and the step adds exactly one resource,
\* whose content is that text and whose type is text/markdown.
C11_FailureArtifactOfNormalizedUrl ==
    [][ \A t \in TASKS :
          (Ends(t) /\ RendererFailed(tasks'[t].page)) =>
              LET artifact == <<"# Failed to retrieve content from ",
                                WithScheme(tasks'[t].arguments.url)>>
              IN  /\ tasks'[t].result = TextContent(artifact)
                  /\ AddsOne(artifact)
      ]_vars

\* C11 witness: a call for example.com whose page came back empty has returned
\* the failure text with https://example.com and has its resource stored.
C11_Witness ==
    /\ tasks[1].pc = "done"
    /\ PassedValidation(tasks[1])
    /\ tasks[1].arguments.url = <<"example.com">>
    /\ tasks[1].page.content = Str(<<>>)
    /\ tasks[1].result = TextContent(<<"# Failed to retrieve content from ",
                                       <<"https://", "example.com">>>>)
    /\ Cardinality(DOMAIN resources) = 1

\* C12: every scrape_to_markdown call that passes the argument test ends with
\* a text result and one resource stored, whatever the renderer and the
\* converter do.
C12_AlwaysStoresOne ==
    \A t \in TASKS :
        (tasks[t].pc = "done" /\ PassedValidation(tasks[t])) =>
            /\ tasks[t].result.type = "text"
            /\ tasks[t].resource_uri \in DOMAIN resources
            /\ Cardinality(DOMAIN resources) = 1

\* The renderer gave content and Scraper.scrape has classified it.
Classified(task) ==
    /\ task.pc \in {"download", "convert", "done"}
    /\ task.renders = 1
    /\ task.pending = None
    /\ ~RendererFailed(task.page)

\* The content went to try_pandoc and html_to_markdown.
SentToConverter(task) == task.pc \in {"download", "convert"} \/ task.converts = 1

\* The call returned the content between two lines of three backquotes,
\* without the converter.
Fenced(task) ==
    /\ task.pc = "done"
    /\ task.converts = 0
    /\ task.markdown = <<"[3 backquotes]", "\n", task.page.content.str, "\n",
                         "[3 backquotes]">>
    /\ task.result = TextContent(task.markdown)

\* The hint is there and says HTML.
HintIsHtml(page) == page.mime_type # None /\ page.mime_type.str = "text/html"

\* One of the HTML patterns occurs in the body, in any case of the letters.
BodyMatches(page) ==
    \E i \in 1..Len(page.content.str) : Lower(page.content.str[i]) \in html_patterns

\* The statement of C17 as given: content is HTML when the hint says HTML, and
\* in every other case, the hint absent or present but not HTML, when the body
\* matches a pattern; HTML goes to the converter, the rest is returned fenced.
C17_BodyInspectedWheneverHintNotHtml ==
    \A t \in TASKS :
        Classified(tasks[t]) =>
            IF HintIsHtml(tasks[t].page) \/ BodyMatches(tasks[t].page)
            THEN SentToConverter(tasks[t])
            ELSE Fenced(tasks[t])

\* C17: content is HTML when the hint is present and says HTML, or when no hint
\* is present and the body matches one of the patterns; a hint that is present
\* and does not say HTML makes the content non-HTML whatever the body holds.
\* HTML goes to the converter, the rest is returned fenced.
C17_BodyInspectedOnlyWithoutHint ==
    \A t \in TASKS :
        Classified(tasks[t]) =>
            IF \/ HintIsHtml(tasks[t].page)
               \/ tasks[t].page.mime_type = None /\ BodyMatches(tasks[t].page)
            THEN SentToConverter(tasks[t])
            ELSE Fenced(tasks[t])

\* C17 witness: a page with the hint text/plain and a <p> in its body has been
\* returned fenced.
C17_Witness ==
    /\ tasks[1].page = [content |-> Str(<<"<p>", "text">>), mime_type |-> Str("text/plain")]
    /\ Fenced(tasks[1])

\* C19: the url the renderer is called with is the url of the call with
\* https:// in front when that starts with neither http:// nor https://, and the
\* url of the call itself when it starts with one of the two; normalizing the
\* url the renderer got gives that url again.
C19_UrlNormalization ==
    \A t \in TASKS :
        PassedValidation(tasks[t]) =>
            LET url == tasks[t].arguments.url
            IN  /\ tasks[t].renders = 1
                /\ (StartsWith(url, "http://") \/ StartsWith(url, "https://"))
                       => tasks[t].url = url
                /\ ~(StartsWith(url, "http://") \/ StartsWith(url, "https://"))
                       => tasks[t].url = <<"https://">> \o url
                /\ normalize_url(tasks[t].url) = tasks[t].url

\* C19 witness: the renderer runs for HTTP://example.org, which got https:// in
\* front, and a second normalization would leave that url alone.
C19_Witness ==
    /\ tasks[1].pc = "page"
    /\ tasks[1].arguments.url = <<"HTTP://", "example.org">>
    /\ tasks[1].url = <<"https://", "HTTP://", "example.org">>
    /\ normalize_url(tasks[1].url) = tasks[1].url

----------------------------------------------------------------------------
(* Properties of concurrent tool calls *)

\* C18: within one tool call the renderer is called once, and it has been
\* called before the converter is called and before the resource is added; a
\* renderer failure leads to no second call of the renderer and to no call of
\* the converter.
C18_RendersOnceBeforeTheRest ==
    [][ \A t \in TASKS :
          /\ tasks'[t].renders <= 1
          /\ tasks'[t].converts <= 1
          /\ (tasks'[t].converts > tasks[t].converts
                 \/ tasks'[t].resource_uri # tasks[t].resource_uri)
             => /\ tasks[t].renders = 1
                /\ tasks'[t].renders = 1
          /\ (tasks[t].pc # "idle" /\ PassedValidation(tasks[t]))
             => tasks'[t].renders = tasks[t].renders
          /\ (tasks'[t].renders = 1 /\ tasks'[t].pc \in {"download", "convert", "done"}
                 /\ RendererFailed(tasks'[t].page))
             => /\ tasks'[t].converts = 0
                /\ tasks'[t].pc = "done"
      ]_vars

\* C18 witness: a call whose renderer failed has ended after one call of the
\* renderer and none of the converter, while another call is in the converter.
C18_Witness ==
    \E t, o \in TASKS :
        /\ tasks[t].pc = "done"
        /\ tasks[t].renders = 1
        /\ tasks[t].converts = 0
        /\ tasks[t].page.content = None
        /\ tasks[t].resource_uri \in DOMAIN resources
        /\ tasks[o].pc = "convert"
        /\ tasks[o].converts = 1

\* The calls that have returned the artifact of a scrape.
Completed == {t \in TASKS : tasks[t].resource_uri # None}

\* C15: with the calls interleaved at their suspension points, the registry
\* holds one resource for each call that has returned its artifact, the
\* identities of two calls differ, the resource of a call holds the url and the
\* artifact of that call, and no two calls hold the same engine instance.
C15_ConcurrentCallsSerialized ==
    /\ Cardinality(DOMAIN resources) = Cardinality(Completed)
    /\ \A t \in TASKS :
           (tasks[t].pc = "done" /\ PassedValidation(tasks[t])
                /\ tasks[t].result.type = "text") => t \in Completed
    /\ \A t \in Completed :
           /\ tasks[t].resource_uri \in DOMAIN resources
           /\ resources[tasks[t].resource_uri].url = tasks[t].arguments.url
           /\ resources[tasks[t].resource_uri].content = tasks[t].markdown
           /\ tasks[t].result = TextContent(tasks[t].markdown)
    /\ \A t, o \in Completed : t # o => tasks[t].resource_uri # tasks[o].resource_uri
    /\ \A t, o \in TASKS :
           (t # o /\ tasks[t].playwright # None /\ tasks[o].playwright # None)
               => tasks[t].playwright.id # tasks[o].playwright.id
    /\ \A t, o \in TASKS :
           (t # o /\ tasks[t].browser # None /\ tasks[o].browser # None)
               => tasks[t].browser.id # tasks[o].browser.id

\* C15 witness: two calls that held running browsers at the same time have
\* both returned, one the failure text and one the markdown of its page, for
\* different urls, and the registry holds the two resources.
C15_Witness ==
    \E t, o \in TASKS :
        /\ t # o
        /\ tasks[t].pc = "done" /\ tasks[o].pc = "done"
        /\ {t, o} \subseteq Completed
        /\ tasks[t].arguments.url # tasks[o].arguments.url
        /\ tasks[t].markdown # tasks[o].markdown
        /\ tasks[t].browser # None /\ tasks[o].browser # None
        /\ Cardinality(DOMAIN resources) = 2

\* C14: a scrape that has ended, in whatever way, has left neither its
\* playwright driver nor its browser running.
C14_EngineReleasedOnEveryExit ==
    \A t \in TASKS :
        tasks[t].pc = "done" =>
            /\ tasks[t].playwright = None \/ tasks[t].playwright.state = "released"
            /\ tasks[t].browser = None \/ tasks[t].browser.state = "released"

====
